---- MODULE Spec2Model ----
(***************************************************************************)
(* The cat-fact application of src/src/App.js: one query, key ['catFact'],  *)
(* fetched by fetchCatFact and rendered by CatFactApp.                      *)
(*                                                                          *)
(* App.js holds the query function, the two refetch buttons and the         *)
(* conditional rendering.  The cache entry itself (status, data, error,     *)
(* retry, staleness, cancellation) lives in the useQuery / QueryClient      *)
(* objects that App.js imports from @tanstack/react-query (App.js:2) and    *)
(* uses with their default options (App.js:5, App.js:19-22).  Those parts   *)
(* are modelled by the behaviour of that package: Query.fetch, the query    *)
(* state reducer, the retryer and timeUntilStale.                           *)
(*                                                                          *)
(* The entry of the design text maps onto the query state as follows:       *)
(*   value = data, errorInfo = error, fetchedAt = dataUpdatedAt,            *)
(*   status = EntryStatus (loading while fetchStatus is "fetching").        *)
(***************************************************************************)
EXTENDS Integers, FiniteSets, Sequences, TLC

VARIABLES
    mounted,            \* CatFactApp is mounted (its observer is subscribed)
    status,             \* query state: "pending" | "success" | "error"
    fetchStatus,        \* query state: "idle" | "fetching"
    data,               \* query state: decoded payload, or Undefined
    error,              \* query state: the thrown error, or NoError (null)
    dataUpdatedAt,      \* query state: time of the last success, 0 = never
    fetchFailureCount,  \* query state: failures of the current run
    retryerPc,          \* the live retryer: "none" | "fetch" | "json" | "sleep"
    failureCount,       \* the live retryer's local failure counter
    orphansFetch,       \* superseded fetchCatFact calls awaiting fetch()
    orphansJson,        \* superseded fetchCatFact calls awaiting response.json()
    now,                \* Date.now()
    staleTime,          \* the query's staleTime option
    runAttempts,        \* history: fetchCatFact calls made by the current run
    lastOp              \* history: the operation that produced this state

vars == <<mounted, status, fetchStatus, data, error, dataUpdatedAt,
          fetchFailureCount, retryerPc, failureCount, orphansFetch,
          orphansJson, now, staleTime, runAttempts, lastOp>>

entry == <<status, fetchStatus, data, error, dataUpdatedAt, fetchFailureCount>>
retryer == <<retryerPc, failureCount>>
orphans == <<orphansFetch, orphansJson>>

(***************************************************************************)
(* Bounds of the model.                                                     *)
(***************************************************************************)
MaxClock == 4
MaxOrphans == 2
StaleTime == 2

(***************************************************************************)
(* Program constants.                                                       *)
(***************************************************************************)
\* retry: 3 (the client-side default of new QueryClient(), README.md:238)
Retry == 3
\* staleTime of new QueryClient() without options
DefaultStaleTime == 0

(***************************************************************************)
(* Values.                                                                  *)
(***************************************************************************)
Undefined == "undefined"
NoError == "null"

\* Bodies a 200 response can carry, by how response.json() and the renderer
\* treat them: two well-formed facts, the JSON literal null (falsy), and an
\* object whose fact field is itself an object.
Payloads == {"FactA", "FactB", "Null", "ObjFact"}
NotJson == "NotJson"

\* Messages of the three ways fetchCatFact rejects.
HttpError == "Failed to fetch cat fact"
TransportError == "TypeError: Failed to fetch"
DecodeError == "SyntaxError: Unexpected token"
Errors == {HttpError, TransportError, DecodeError}

\* JavaScript truthiness of the value held in data.
Truthy(d) == d \notin {Undefined, "Null"}

\* data.fact of a truthy payload.
FactField(d) ==
    CASE d = "FactA" -> "A"
      [] d = "FactB" -> "B"
      [] d = "ObjFact" -> "object"
      [] OTHER -> Undefined

Max(a, b) == IF a >= b THEN a ELSE b

(***************************************************************************)
(* The query state reducer (the dispatch calls of the imported query).      *)
(***************************************************************************)
HasData == data # Undefined

\* DispatchFetch with the reset applied on every run, data or not.
DispatchFetchClearsError ==
    /\ fetchFailureCount' = 0
    /\ fetchStatus' = "fetching"
    /\ error' = NoError
    /\ status' = "pending"
    /\ UNCHANGED <<data, dataUpdatedAt>>

\* DispatchFetch that forgets to mark the query as fetching.
DispatchFetchKeepsIdle ==
    /\ fetchFailureCount' = 0
    /\ IF data = Undefined
          THEN error' = NoError /\ status' = "pending"
          ELSE UNCHANGED <<error, status>>
    /\ UNCHANGED <<fetchStatus, data, dataUpdatedAt>>

\* 'fetch': a run starts.  error and status are reset only when the entry
\* holds no data; with data they stay as they are while the run is in flight.
DispatchFetch ==
    /\ fetchFailureCount' = 0
    /\ fetchStatus' = "fetching"
    /\ IF data = Undefined
          THEN error' = NoError /\ status' = "pending"
          ELSE UNCHANGED <<error, status>>
    /\ UNCHANGED <<data, dataUpdatedAt>>

\* 'failed': an attempt failed and a retry is scheduled.
DispatchFailed(n) ==
    /\ fetchFailureCount' = n
    /\ UNCHANGED <<status, fetchStatus, data, error, dataUpdatedAt>>

\* 'success': the run resolved with payload p.
DispatchSuccess(p) ==
    /\ data' = p
    /\ dataUpdatedAt' = now
    /\ error' = NoError
    /\ status' = "success"
    /\ fetchStatus' = "idle"
    /\ fetchFailureCount' = 0

\* DispatchError that also drops the cached payload.
DispatchErrorDropsData(e) ==
    /\ error' = e
    /\ status' = "error"
    /\ fetchStatus' = "idle"
    /\ fetchFailureCount' = fetchFailureCount + 1
    /\ data' = Undefined
    /\ dataUpdatedAt' = 0

\* 'error': the run rejected with e after its last attempt.
DispatchError(e) ==
    /\ error' = e
    /\ status' = "error"
    /\ fetchStatus' = "idle"
    /\ fetchFailureCount' = fetchFailureCount + 1
    /\ UNCHANGED <<data, dataUpdatedAt>>

(***************************************************************************)
(* Staleness: timeUntilStale(updatedAt, staleTime) and isStaleByTime.       *)
(***************************************************************************)
timeUntilStale(updatedAt, st, t) == Max(updatedAt + st - t, 0)

\* isStaleByTime with a strict comparison.
isStaleStrict(updatedAt, st, t) ==
    \/ updatedAt = 0
    \/ t - updatedAt > st

isStaleByTime(updatedAt, st, t) ==
    \/ updatedAt = 0
    \/ timeUntilStale(updatedAt, st, t) = 0

isStale == isStaleByTime(dataUpdatedAt, staleTime, now)

(***************************************************************************)
(* The retryer.                                                             *)
(***************************************************************************)
\* shouldRetry off by one.
ShouldRetryOnceMore == failureCount <= Retry

\* shouldRetry for a numeric retry option.
ShouldRetry == failureCount < Retry

\* fetchCatFact calls that have started and not yet resolved or rejected.
LiveRunning == IF retryerPc \in {"fetch", "json"} THEN 1 ELSE 0
Outstanding == LiveRunning + orphansFetch + orphansJson

\* The live run's attempt resolved with payload p.
Resolve(p) ==
    /\ DispatchSuccess(p)
    /\ retryerPc' = "none"
    /\ UNCHANGED <<failureCount, runAttempts>>

\* Reject that drops the final rejection instead of dispatching it.
RejectSwallowsLast(e) ==
    IF failureCount < Retry
       THEN /\ failureCount' = failureCount + 1
            /\ DispatchFailed(failureCount + 1)
            /\ retryerPc' = "sleep"
            /\ UNCHANGED runAttempts
       ELSE /\ retryerPc' = "none"
            /\ UNCHANGED <<entry, failureCount, runAttempts>>

\* The live run's attempt rejected with e: retry after a delay, or give up.
Reject(e) ==
    IF ShouldRetry
       THEN /\ failureCount' = failureCount + 1
            /\ DispatchFailed(failureCount + 1)
            /\ retryerPc' = "sleep"
            /\ UNCHANGED runAttempts
       ELSE /\ DispatchError(e)
            /\ retryerPc' = "none"
            /\ UNCHANGED <<failureCount, runAttempts>>

\* SettleSuperseded that lets the late value through.
SettleSupersededApplies(outcome) ==
    IF outcome \in Payloads
       THEN DispatchSuccess(outcome) /\ UNCHANGED <<retryer, runAttempts>>
       ELSE UNCHANGED <<entry, retryer, runAttempts>>

\* A superseded call settles: its retryer is already resolved (cancelled), so
\* neither its value nor its error reaches the query state.
SettleSuperseded(outcome) ==
    UNCHANGED <<entry, retryer, runAttempts>>

(***************************************************************************)
(* Query.fetch(options, {cancelRefetch}).                                   *)
(***************************************************************************)
\* Dedupes that never keeps the in-flight fetch.
NeverDedupes(cancelRefetch) == FALSE

\* A fetch is in flight and is kept: the caller gets the in-flight promise.
Dedupes(cancelRefetch) ==
    /\ fetchStatus # "idle"
    /\ ~(HasData /\ cancelRefetch)

\* cancel({silent: true}): the retryer is rejected without a dispatch.  The
\* call of fetchCatFact it was awaiting is not aborted (fetchCatFact takes no
\* signal), so it stays outstanding without an owner.
CancelSilently ==
    /\ orphansFetch' = orphansFetch + (IF retryerPc = "fetch" THEN 1 ELSE 0)
    /\ orphansJson' = orphansJson + (IF retryerPc = "json" THEN 1 ELSE 0)

QueryFetch(cancelRefetch) ==
    IF Dedupes(cancelRefetch)
       THEN UNCHANGED <<entry, retryer, orphans, runAttempts>>
       ELSE /\ CancelSilently
            /\ DispatchFetch
            /\ failureCount' = 0
            /\ retryerPc' = "fetch"
            /\ runAttempts' = 1

\* The model keeps at most MaxOrphans superseded calls outstanding.
RoomFor(cancelRefetch) ==
    \/ Dedupes(cancelRefetch)
    \/ LiveRunning = 0
    \/ orphansFetch + orphansJson < MaxOrphans

(***************************************************************************)
(* CatFactApp: what the component renders from the observer's result.       *)
(***************************************************************************)
isLoading == status = "pending" /\ fetchStatus = "fetching"

LoadingShown == mounted /\ isLoading
ErrorBlockShown == mounted /\ error # NoError
FactBlockShown == mounted /\ Truthy(data)

\* {data.fact} as a child of <p>: a string renders as text, undefined renders
\* nothing, an object makes the renderer throw.
RenderThrows == FactBlockShown /\ FactField(data) = "object"

TryAgainButton == ErrorBlockShown /\ ~RenderThrows
GetNewFactButton == FactBlockShown /\ ~RenderThrows

(***************************************************************************)
(* The entry of the design text read off the query state.                   *)
(***************************************************************************)
EntryStatus ==
    IF fetchStatus = "fetching" THEN "loading"
    ELSE IF status = "pending" THEN "idle"
    ELSE status

(***************************************************************************)
(* Init and the operations.                                                 *)
(***************************************************************************)
Init ==
    /\ mounted = FALSE
    /\ status = "pending"
    /\ fetchStatus = "idle"
    /\ data = Undefined
    /\ error = NoError
    /\ dataUpdatedAt = 0
    /\ fetchFailureCount = 0
    /\ retryerPc = "none"
    /\ failureCount = 0
    /\ orphansFetch = 0
    /\ orphansJson = 0
    /\ now = 1
    /\ staleTime \in {DefaultStaleTime, StaleTime}
    /\ runAttempts = 0
    /\ lastOp = "init"

\* useQuery on first render: the observer subscribes and fetches.
Mount ==
    /\ ~mounted
    /\ mounted' = TRUE
    /\ QueryFetch(FALSE)
    /\ lastOp' = "mount"
    /\ UNCHANGED <<now, staleTime>>

\* onClick={() => refetch()} of the 'Try Again' button.
ClickTryAgain ==
    /\ TryAgainButton
    /\ RoomFor(TRUE)
    /\ QueryFetch(TRUE)
    /\ lastOp' = "refetch"
    /\ UNCHANGED <<mounted, now, staleTime>>

\* onClick={() => refetch()} of the 'Get New Fact' button.
ClickGetNewFact ==
    /\ GetNewFactButton
    /\ RoomFor(TRUE)
    /\ QueryFetch(TRUE)
    /\ lastOp' = "refetch"
    /\ UNCHANGED <<mounted, now, staleTime>>

\* The window regains focus (refetchOnWindowFocus: true): the observer
\* refetches a stale query with cancelRefetch: false.
WindowFocus ==
    /\ mounted
    /\ ~RenderThrows
    /\ isStale
    /\ QueryFetch(FALSE)
    /\ lastOp' = "focus"
    /\ UNCHANGED <<mounted, now, staleTime>>

\* fetchCatFact, await fetch(...): the live call gets a response or fails.
FetchResponds ==
    /\ retryerPc = "fetch"
    /\ \E r \in {"ok", "notOk", "transport"} :
          CASE r = "ok" -> /\ retryerPc' = "json"
                           /\ UNCHANGED <<entry, failureCount, runAttempts>>
            [] r = "notOk" -> Reject(HttpError)
            [] r = "transport" -> Reject(TransportError)
    /\ lastOp' = "respond"
    /\ UNCHANGED <<mounted, orphans, now, staleTime>>

\* fetchCatFact, return response.json(): the body decodes or does not.
JsonDecodes ==
    /\ retryerPc = "json"
    /\ \E body \in Payloads \cup {NotJson} :
          IF body = NotJson THEN Reject(DecodeError) ELSE Resolve(body)
    /\ lastOp' = "decode"
    /\ UNCHANGED <<mounted, orphans, now, staleTime>>

\* The retry delay elapsed: the retryer calls fetchCatFact again.
RetryFires ==
    /\ retryerPc = "sleep"
    /\ retryerPc' = "fetch"
    /\ runAttempts' = runAttempts + 1
    /\ lastOp' = "retry"
    /\ UNCHANGED <<entry, failureCount, orphans, mounted, now, staleTime>>

\* A superseded call's fetch(...) settles.
OrphanResponds ==
    /\ orphansFetch > 0
    /\ \E r \in {"ok", "fail"} :
          /\ orphansFetch' = orphansFetch - 1
          /\ orphansJson' = IF r = "ok" THEN orphansJson + 1 ELSE orphansJson
          /\ SettleSuperseded(r)
    /\ lastOp' = "orphanRespond"
    /\ UNCHANGED <<mounted, now, staleTime>>

\* A superseded call's response.json() settles.
OrphanDecodes ==
    /\ orphansJson > 0
    /\ \E body \in Payloads \cup {NotJson} :
          /\ orphansJson' = orphansJson - 1
          /\ SettleSuperseded(body)
    /\ lastOp' = "orphanDecode"
    /\ UNCHANGED <<mounted, orphansFetch, now, staleTime>>

\* Time passes.
Tick ==
    /\ now < MaxClock
    /\ now' = now + 1
    /\ lastOp' = "tick"
    /\ UNCHANGED <<entry, retryer, orphans, mounted, staleTime, runAttempts>>

Next ==
    \/ Mount
    \/ ClickTryAgain
    \/ ClickGetNewFact
    \/ WindowFocus
    \/ FetchResponds
    \/ JsonDecodes
    \/ RetryFires
    \/ OrphanResponds
    \/ OrphanDecodes
    \/ Tick

Spec == Init /\ [][Next]_vars

\* Every call of fetchCatFact settles and every retry delay elapses.
FairSpec ==
    /\ Spec
    /\ WF_vars(FetchResponds)
    /\ WF_vars(JsonDecodes)
    /\ WF_vars(RetryFires)

TypeOK ==
    /\ mounted \in BOOLEAN
    /\ status \in {"pending", "success", "error"}
    /\ fetchStatus \in {"idle", "fetching"}
    /\ data \in Payloads \cup {Undefined}
    /\ error \in Errors \cup {NoError}
    /\ dataUpdatedAt \in 0..MaxClock
    /\ fetchFailureCount \in 0..(Retry + 1)
    /\ retryerPc \in {"none", "fetch", "json", "sleep"}
    /\ failureCount \in 0..Retry
    /\ orphansFetch \in 0..MaxOrphans
    /\ orphansJson \in 0..MaxOrphans
    /\ now \in 1..MaxClock
    /\ staleTime \in {DefaultStaleTime, StaleTime}
    /\ runAttempts \in 0..(Retry + 1)

(***************************************************************************)
(* Properties.                                                              *)
(***************************************************************************)
IsRefetchStep == lastOp' \in {"refetch", "focus"}
IsCompletion == lastOp' \in {"respond", "decode"}
SuccessStep ==
    /\ lastOp' = "decode"
    /\ fetchStatus = "fetching"
    /\ status' = "success"
    /\ fetchStatus' = "idle"

C3_Supersession ==
    /\ [][lastOp' \in {"orphanRespond", "orphanDecode"}
            => UNCHANGED <<entry, retryer, runAttempts>>]_vars
    /\ [][(fetchStatus = "fetching" /\ IsRefetchStep /\ Outstanding' > Outstanding)
            => (orphansFetch' + orphansJson'
                  = orphansFetch + orphansJson + LiveRunning)]_vars
    /\ [][(data' # data \/ dataUpdatedAt' # dataUpdatedAt
             \/ (error' # error /\ error' # NoError))
            => (IsCompletion /\ retryerPc \in {"fetch", "json"})]_vars

\* The superseded call decoded its body after the later run had already
\* settled the entry.
C3_Witness ==
    /\ lastOp = "orphanDecode"
    /\ fetchStatus = "idle"
    /\ status = "success"

\* C4 as stated: with retry 3 a run of failing attempts makes exactly 3 calls
\* of the query function.
C4_ExactlyRetryAttempts ==
    /\ runAttempts <= Retry
    /\ (status = "error" /\ fetchStatus = "idle") => runAttempts = Retry

\* C4 amended: a run makes at most Retry + 1 calls (the first attempt and up
\* to Retry retries), a run that ends in error made exactly Retry + 1, the
\* entry stays loading between the attempts, and an attempt starts only when
\* no other attempt of the run is outstanding.
C4_RetryBound ==
    /\ [](runAttempts <= Retry + 1)
    /\ []((status = "error" /\ fetchStatus = "idle")
            => (runAttempts = Retry + 1 /\ fetchFailureCount = Retry + 1))
    /\ []((retryerPc # "none") => EntryStatus = "loading")
    /\ []((retryerPc \in {"fetch", "json"}) => runAttempts = failureCount + 1)
    /\ []((retryerPc = "sleep") => runAttempts = failureCount)
    /\ [][lastOp' = "retry"
            => (LiveRunning = 0 /\ LiveRunning' = 1
                /\ runAttempts' = runAttempts + 1)]_vars

\* A run has just given up after its last attempt.
C4_Witness ==
    /\ status = "error"
    /\ fetchStatus = "idle"
    /\ runAttempts = Retry + 1
    /\ lastOp \in {"respond", "decode"}

\* C5 as stated: errorInfo is cleared only by a successful completion.
C5_ClearedOnlyBySuccess ==
    [][(error # NoError /\ error' = NoError) => SuccessStep]_vars

\* C5 amended: errorInfo is cleared by a successful completion, and by the
\* start of a fetch on an entry that holds no data.  When the entry holds
\* data, a refetch leaves errorInfo unchanged for as long as it is in flight,
\* and a successful entry has no errorInfo.
C5_ErrorClearing ==
    /\ [][(error # NoError /\ error' = NoError)
            => \/ SuccessStep
               \/ (data = Undefined /\ fetchStatus = "idle"
                     /\ fetchStatus' = "fetching")]_vars
    /\ [][(data # Undefined /\ fetchStatus' = "fetching") => error' = error]_vars
    /\ [](status = "success" => error = NoError)

\* 'Try Again' was clicked on an entry with data and the old error is still
\* there while the refetch is in flight.
C5_Witness ==
    /\ lastOp = "refetch"
    /\ fetchStatus = "fetching"
    /\ data # Undefined
    /\ error # NoError

\* C6: no outcome of the fetch makes the rendering layer throw.
C6_Containment == ~RenderThrows

\* C7 as stated: with the configured staleTime, isStale is true exactly when
\* no fetch has succeeded or now - fetchedAt > staleTime.
C7_StrictStaleness ==
    (staleTime = StaleTime)
       => (isStale <=> (dataUpdatedAt = 0 \/ now - dataUpdatedAt > staleTime))

\* C7 amended: isStale is true exactly when no fetch has succeeded or
\* now - fetchedAt >= staleTime; with a positive staleTime it is false at the
\* instant of a success and while less than staleTime has passed, and only a
\* success makes a stale entry fresh.
C7_Staleness ==
    /\ [](isStale <=> (dataUpdatedAt = 0 \/ now - dataUpdatedAt >= staleTime))
    /\ []((lastOp = "decode" /\ status = "success" /\ fetchStatus = "idle"
             /\ staleTime > 0) => ~isStale)
    /\ [][(isStale /\ ~isStale') => SuccessStep]_vars

\* The clock stands exactly staleTime after the last success.
C7_Witness ==
    /\ staleTime = StaleTime
    /\ dataUpdatedAt > 0
    /\ now - dataUpdatedAt = staleTime
    /\ isStale

\* C8: the status of the entry moves only idle -> loading, loading ->
\* success, loading -> error, success -> loading and error -> loading, and
\* success and error are entered only by a fetch completion.
AllowedTransitions ==
    { <<"idle", "loading">>, <<"loading", "success">>, <<"loading", "error">>,
      <<"success", "loading">>, <<"error", "loading">> }

C8_StatusMachine ==
    /\ [][(EntryStatus' # EntryStatus)
            => (<<EntryStatus, EntryStatus'>> \in AllowedTransitions)]_vars
    /\ [][(EntryStatus' # EntryStatus /\ EntryStatus' \in {"success", "error"})
            => IsCompletion]_vars

\* The entry went back to loading from error.
C8_Witness ==
    /\ lastOp = "refetch"
    /\ EntryStatus = "loading"
    /\ status = "error"

\* C9: once mounted, the component always shows the loading message or a
\* refetch button.
C9_NoDeadEnd ==
    mounted => (LoadingShown \/ TryAgainButton \/ GetNewFactButton)

\* C10 as stated: an entry that is loading eventually leaves loading.
C10_Settles == (fetchStatus = "fetching") ~> (fetchStatus = "idle")

\* C10 amended: an entry that is loading without data eventually settles,
\* and an entry that is loading with data eventually settles or is restarted
\* by a button refetch that supersedes the run in flight.
C10_SettlesUnlessSuperseded ==
    /\ (fetchStatus = "fetching" /\ data = Undefined) ~> (fetchStatus = "idle")
    /\ (fetchStatus = "fetching")
          ~> (fetchStatus = "idle" \/ (lastOp = "refetch" /\ runAttempts = 1))

\* Every attempt of a run on an entry without data failed and the run
\* settled in error.
C10_Witness ==
    /\ status = "error"
    /\ fetchStatus = "idle"
    /\ data = Undefined
    /\ fetchFailureCount = Retry + 1

====
